---- MODULE Spec2Model ----
(***************************************************************************)
(* Model of the raw-kernel ZeroMQ transport:                               *)
(*   src/client/datascience/raw-kernel/enchannelJMPConnection.ts           *)
(*   src/client/datascience/raw-kernel/enchannel-zmq-backend-6/index.ts    *)
(*                                                                         *)
(* One EnchannelJMPConnection object, the socket set that createSockets    *)
(* builds for it, the rxjs duplex subject returned by                      *)
(* createMainChannelFromSockets, and the handlers subscribed to it.        *)
(* The zeromq sockets and the wire codec are the environment: a bind, a    *)
(* send, an encode or a decode may fail, and a bound socket may emit a raw *)
(* 'message' event at any time.                                            *)
(***************************************************************************)
EXTENDS Integers, Sequences, FiniteSets, TLC

(* ------------------------------ bounds --------------------------------- *)
MaxPush == 2        \* calls of sendMessage / next
MaxEvents == 2      \* raw 'message' events emitted by the sockets
MaxDispose == 2     \* calls of dispose
MaxHandlers == 2    \* calls of subscribe
MaxCalls == 4       \* calls and raw events together, where both paths run

(* ----------------------------- channels -------------------------------- *)
\* index.ts:14  type ChannelName
Channels == {"shell", "control", "stdin", "iopub"}
\* index.ts:119-124  the three channels created with createDealer
Dealers == {"shell", "control", "stdin"}

(* ------------------------- connection info ----------------------------- *)
\* A descriptor is a record [transport, ip, ports]; ports is a function on
\* the channels whose <channel>_port key is present in the object.
Transports == {"tcp", "ipc"}
PortPresence == {"ok", "zero", "absent"}

\* the port a complete descriptor names for each channel
ChannelPort ==
    [shell |-> 5551, control |-> 5552, stdin |-> 5553, iopub |-> 5554]

MkConfig(t, pres) ==
    [transport |-> t,
     ip |-> "127.0.0.1",
     ports |-> [c \in {d \in Channels : pres[d] # "absent"} |->
                    IF pres[c] = "zero" THEN 0 ELSE ChannelPort[c]]]

\* descriptors offered to connect: for either transport the complete
\* descriptor and every descriptor with one channel's port zero or absent
Configs ==
    { MkConfig(t, pres) : t \in Transports,
        pres \in { p \in [Channels -> PortPresence] :
                     Cardinality({c \in Channels : p[c] # "ok"}) <= 1 } }

\* every descriptor: each channel's port present, zero or absent on its own
AllConfigs ==
    { MkConfig(t, pres) : t \in Transports,
                          pres \in [Channels -> PortPresence] }

\* PortMissing that only looks whether the key is on the descriptor
PortMissingAbsentOnly(config, channel) ==
    channel \notin DOMAIN config.ports

\* index.ts:47-48  const port = config[`${channel}_port`]; if (!port)
PortMissing(config, channel) ==
    \/ channel \notin DOMAIN config.ports
    \/ config.ports[channel] = 0

\* index.ts:45-52  formConnectionString (only called when it does not throw)
FormConnectionString(config, channel) ==
    LET portDelimiter == IF config.transport = "tcp" THEN ":" ELSE "-"
    IN  <<config.transport, "://", config.ip, portDelimiter,
          config.ports[channel]>>

(* ------------------------------ headers -------------------------------- *)
\* index.ts:251-254  default header of createMainChannel: a fresh uuid and
\* getUsername(); connect() never passes a header of its own
HeaderFiller == [session |-> "uuid-session", username |-> "os-user"]

\* SpreadMerge with the two spreads in the wrong order: earlier keys win
SpreadMergeFirstWins(first, second) ==
    [k \in (DOMAIN first) \cup (DOMAIN second) |->
        IF k \in DOMAIN first THEN first[k] ELSE second[k]]

\* the object spread { ...message.header, ...header }: later keys win
SpreadMerge(first, second) ==
    [k \in (DOMAIN first) \cup (DOMAIN second) |->
        IF k \in DOMAIN second THEN second[k] ELSE first[k]]

\* index.ts:177  header: { ...message.header, ...header }
EnrichHeader(messageHeader) == SpreadMerge(messageHeader, HeaderFiller)

(* ------------------------- outbound messages --------------------------- *)
\* a message object: a record whose fields are the keys present on it
Msg(ch, hdr, content) == [channel |-> ch, header |-> hdr, content |-> content]

\* sendMessage(undefined)
NullMessage == [null |-> TRUE]

\* the messages offered to sendMessage
OutMessages ==
    { NullMessage,
      [header |-> [msg_id |-> "m1", msg_type |-> "execute_request"],
       content |-> "X"],                                  \* no channel key
      Msg("", [msg_id |-> "m1", msg_type |-> "execute_request"], "X"),
      Msg("bogus", [msg_id |-> "m1", msg_type |-> "execute_request"], "X"),
      Msg("constructor", [msg_id |-> "m1", msg_type |-> "execute_request"],
          "X"),
      Msg("iopub", [msg_id |-> "m1", msg_type |-> "execute_request"], "X"),
      Msg("shell", [msg_id |-> "m2", session |-> "caller-session",
                    username |-> "caller-user"], "X"),
      Msg("control", [msg_id |-> "m1", msg_type |-> "execute_request"],
          "circular"),
      [channel |-> "stdin", content |-> "X"] }            \* no header key

\* index.ts:163  !message || !message.channel
NoChannel(message) ==
    \/ "null" \in DOMAIN message
    \/ "channel" \notin DOMAIN message
    \/ message.channel = ""

\* message.<key>, undefined when the key is not on the object
Field(message, key) ==
    IF key \in DOMAIN message THEN message[key] ELSE "undefined"

\* { ...message.header }: spreading undefined gives the empty object
HeaderOf(message) ==
    IF "header" \in DOMAIN message THEN message.header
    ELSE [k \in {} |-> "undefined"]

\* index.ts:175-183  the RawJupyterMessage handed to the codec
JMessage(message) ==
    [header |-> EnrichHeader(HeaderOf(message)),
     parent_header |-> Field(message, "parent_header"),
     content |-> Field(message, "content"),
     metadata |-> Field(message, "metadata"),
     buffers |-> Field(message, "buffers"),
     idents |-> <<>>]

\* wireProtocol.encode is external: it throws on content it cannot
\* serialise and otherwise returns the frame list
EncodeThrows(jMessage) == jMessage.content = "circular"
Encode(jMessage) ==
    <<"<IDS|MSG>", "hmac", jMessage.header, jMessage.parent_header,
      jMessage.metadata, jMessage.content>>

(* -------------------------- inbound messages --------------------------- *)
\* bodies of the raw 'message' events the sockets emit
RawBodies ==
    { [content |-> "reply", idents |-> <<"peer">>],
      [content |-> "garbled", idents |-> <<"peer">>] }

\* index.ts:218-221  { ...body, channel: name } with idents deleted
TagBody(body, name) ==
    [k \in ((DOMAIN body) \cup {"channel"}) \ {"idents"} |->
        IF k = "channel" THEN name ELSE body[k]]

\* wireProtocol.decode is external: it throws on input it cannot parse and
\* otherwise builds a message object of its own from what it was given
DecodeThrows(msg) == msg.content = "garbled"
Decode(msg) ==
    [header |-> "decoded-header", parent_header |-> "decoded-parent",
     metadata |-> "decoded-metadata", content |-> msg.content,
     buffers |-> <<>>, idents |-> <<>>]

(* ------------------------------- state --------------------------------- *)
VARIABLES
    connectInfo,   \* the descriptor connect() was called with
    connectState,  \* the promise of connect(): idle, pending, resolved, rejected
    mainChannel,   \* EnchannelJMPConnection.mainChannel: "undefined" or "set"
    sockets,       \* per channel: the zeromq socket created for it by the
                   \* latest connect()
    earlier,       \* per channel: the socket an earlier connect() created,
                   \* once connect() has been called again
    subjectClosed, \* closed/isStopped of the subject that is mainChannel
    outStopped,    \* isStopped of the outgoingMessages subscriber
    pushed,        \* number of sendMessage calls so far
    encodeCalls,   \* the calls of wireProtocol.encode, in call order
    sendCalls,     \* the calls of socket.send, in call order
    pending,       \* pushes whose `await socket.send(..)` has not settled
    warned,        \* pushes that ended in console.warn
    traced,        \* pushes that ended in traceError
    unsent,        \* pushes that ended at a socket without send
    hstate,        \* per handler: unused, ignored, active (subscribed), errored
    received,      \* per handler: the messages it was invoked with, each
                   \* with the number and the socket of its raw event
    emitted,       \* number of raw 'message' events emitted so far
    uncaught,      \* errors reported outside any caller (hostReportError)
    disposeCalls   \* number of dispose() calls so far

vars == <<connectInfo, connectState, mainChannel, sockets, earlier,
          subjectClosed, outStopped, pushed, encodeCalls, sendCalls, pending,
          warned, traced, unsent,
          hstate, received, emitted, uncaught, disposeCalls>>

connVars == <<connectInfo, connectState, mainChannel, sockets, earlier>>
outVars == <<encodeCalls, sendCalls, pending, warned, traced, unsent>>
inVars == <<hstate, received, emitted, uncaught>>

Handlers == 1..MaxHandlers

NoSocket ==
    [state |-> "none", kind |-> "none", routingId |-> "none", url |-> <<>>,
     closes |-> 0, filters |-> <<>>]

\* no descriptor yet
NoConfig == [transport |-> "none", ip |-> "none", ports |-> [c \in {} |-> 0]]

Init ==
    /\ connectInfo = NoConfig
    /\ connectState = "idle"
    /\ mainChannel = "undefined"
    /\ sockets = [c \in Channels |-> NoSocket]
    /\ earlier = [c \in Channels |-> NoSocket]
    /\ subjectClosed = FALSE
    /\ outStopped = FALSE
    /\ pushed = 0
    /\ encodeCalls = <<>>
    /\ sendCalls = <<>>
    /\ pending = {}
    /\ warned = {}
    /\ traced = {}
    /\ unsent = {}
    /\ hstate = [h \in Handlers |-> "unused"]
    /\ received = [h \in Handlers |-> <<>>]
    /\ emitted = 0
    /\ uncaught = 0
    /\ disposeCalls = 0

(* ------------------------------ connect -------------------------------- *)
\* index.ts:64-75, 86-98  createSubscriber / createDealer up to the await of
\* bind: the socket is constructed, then formConnectionString either throws
\* (the socket stays unbound) or gives the url that bind is started on
CreateSocket(channel, identity, config) ==
    [state |-> IF PortMissing(config, channel) THEN "failed" ELSE "binding",
     kind |-> IF channel \in Dealers THEN "dealer" ELSE "subscriber",
     routingId |-> IF channel \in Dealers THEN identity ELSE "none",
     url |-> IF PortMissing(config, channel) THEN <<>>
             ELSE FormConnectionString(config, channel),
     closes |-> 0,
     filters |-> <<>>]

\* enchannelJMPConnection.ts:11-14 connect, index.ts:247-258 createMainChannel,
\* index.ts:114-124 createSockets: the four creations are started together;
\* Promise.all rejects as soon as one of them has rejected
Connect(cfg, sessionID) ==
    /\ connectState = "idle"
    /\ connectInfo' = cfg
    /\ sockets' = [c \in Channels |-> CreateSocket(c, sessionID, cfg)]
    /\ connectState' = IF \E c \in Channels : PortMissing(cfg, c)
                        THEN "rejected" ELSE "pending"
    /\ UNCHANGED <<mainChannel, earlier, subjectClosed, outStopped, pushed,
                   outVars, inVars, disposeCalls>>

\* enchannelJMPConnection.ts:11-14  connect called again on a connected
\* object: a second socket set is created like the first; nothing is done
\* with the main channel in place, which stays the object's main channel
\* until the new one is assigned over it (l.13)
ConnectAgain(cfg, sessionID) ==
    /\ connectState = "resolved"
    /\ \A c \in Channels : earlier[c].state = "none"
    /\ connectInfo' = cfg
    /\ earlier' = sockets
    /\ sockets' = [c \in Channels |-> CreateSocket(c, sessionID, cfg)]
    /\ connectState' = IF \E c \in Channels : PortMissing(cfg, c)
                        THEN "rejected" ELSE "pending"
    /\ UNCHANGED <<mainChannel, subjectClosed, outStopped, pushed, outVars,
                   inVars, disposeCalls>>

\* index.ts:73, 96  await socket.bind(url) rejects
BindFails(channel) ==
    /\ sockets[channel].state = "binding"
    /\ sockets' = [sockets EXCEPT ![channel].state = "failed"]
    /\ connectState' = IF connectState = "pending" THEN "rejected"
                        ELSE connectState
    /\ UNCHANGED <<connectInfo, mainChannel, earlier, subjectClosed,
                   outStopped, pushed, outVars, inVars, disposeCalls>>

\* ApplyFilter subscribing every socket of the set
ApplyFilterEverySocket(socks) ==
    [c \in Channels |-> [socks[c] EXCEPT !.filters = Append(@, "")]]

\* index.ts:127  iopub.subscribe(subscription); connect passes undefined,
\* so the default '' is used
ApplyFilter(socks) ==
    [socks EXCEPT !["iopub"].filters = Append(@, "")]

\* the endpoint is bound by a socket of the earlier set that is still open
EndpointHeld(url) ==
    \E c \in Channels : /\ earlier[c].state = "bound"
                         /\ earlier[c].closes = 0
                         /\ earlier[c].url = url

\* index.ts:73, 96  await socket.bind(url) resolves; when it was the last of
\* the four, Promise.all resolves, createSockets applies the iopub filter
\* and returns the set, and connect stores the main channel built on it: a
\* new subject on a new outgoingMessages subscriber
BindDone(channel) ==
    /\ sockets[channel].state = "binding"
    /\ ~EndpointHeld(sockets[channel].url)
    /\ LET bound == [sockets EXCEPT ![channel].state = "bound"]
           last == /\ connectState = "pending"
                   /\ \A c \in Channels : bound[c].state = "bound"
       IN  /\ sockets' = IF last THEN ApplyFilter(bound) ELSE bound
           /\ connectState' = IF last THEN "resolved" ELSE connectState
           /\ mainChannel' = IF last THEN "set" ELSE mainChannel
           /\ subjectClosed' = IF last THEN FALSE ELSE subjectClosed
           /\ outStopped' = IF last THEN FALSE ELSE outStopped
    /\ UNCHANGED <<connectInfo, earlier, pushed, outVars, inVars,
                   disposeCalls>>

(* --------------------------- outbound path ----------------------------- *)
\* keys every object literal inherits: sockets[key] is a function then,
\* not undefined
ObjectPrototypeKeys == {"constructor", "toString"}

\* SocketFor falling back to the shell socket for an unknown channel
SocketForDefaulting(channel) ==
    IF channel \in Channels THEN channel ELSE "shell"

\* index.ts:167-168  const socket = sockets[message.channel]; if (!socket):
\* the channel's socket, an inherited member of the object, or nothing
SocketFor(channel) ==
    IF channel \in Channels THEN channel
    ELSE IF channel \in ObjectPrototypeKeys THEN "inherited"
    ELSE "none"

\* HasSend probing a method no socket has
HasSendWrongProbe(socket) ==
    socket \in Channels /\ sockets[socket].kind = "duplex"

\* HasSend that finds a send on every socket of the set
HasSendEverySocket(socket) == socket \in Channels

\* index.ts:184  (socket as any).send !== undefined: a Dealer has send,
\* a Subscriber and an inherited member have not
HasSend(socket) ==
    socket \in Channels /\ sockets[socket].kind = "dealer"

\* index.ts:164-165, 171-172  console.warn(..); return
WarnAndDrop(n) ==
    /\ warned' = warned \cup {n}
    /\ UNCHANGED <<encodeCalls, sendCalls, pending, traced, unsent, uncaught>>

\* EncodeAndSend whose send overtakes the sends issued before it
EncodeAndSendOvertaking(n, message, socket, sendThrows) ==
    LET jMessage == JMessage(message)
    IN  IF ~HasSend(socket)
        THEN /\ unsent' = unsent \cup {[push |-> n, socket |-> socket]}
             /\ UNCHANGED <<encodeCalls, sendCalls, pending, warned, traced,
                            uncaught>>
        ELSE /\ encodeCalls' =
                    Append(encodeCalls, [push |-> n, message |-> message,
                                         jMessage |-> jMessage])
             /\ IF EncodeThrows(jMessage)
                THEN /\ traced' = traced \cup {n}
                     /\ UNCHANGED <<sendCalls, pending>>
                ELSE /\ sendCalls' =
                            <<[push |-> n, socket |-> socket,
                               frames |-> Encode(jMessage)]>> \o sendCalls
                     /\ IF sendThrows
                        THEN traced' = traced \cup {n} /\ pending' = pending
                        ELSE pending' = pending \cup {n} /\ traced' = traced
             /\ UNCHANGED <<warned, unsent, uncaught>>

\* EncodeAndSend without the try/catch: what encode or send throws leaves
\* the async handler as an unhandled rejection
EncodeAndSendNoCatch(n, message, socket, sendThrows) ==
    LET jMessage == JMessage(message)
    IN  IF ~HasSend(socket)
        THEN /\ unsent' = unsent \cup {[push |-> n, socket |-> socket]}
             /\ UNCHANGED <<encodeCalls, sendCalls, pending, warned, traced,
                            uncaught>>
        ELSE /\ encodeCalls' =
                    Append(encodeCalls, [push |-> n, message |-> message,
                                         jMessage |-> jMessage])
             /\ IF EncodeThrows(jMessage)
                THEN /\ uncaught' = uncaught + 1
                     /\ UNCHANGED <<sendCalls, pending>>
                ELSE /\ sendCalls' =
                            Append(sendCalls, [push |-> n, socket |-> socket,
                                               frames |-> Encode(jMessage)])
                     /\ IF sendThrows
                        THEN uncaught' = uncaught + 1 /\ pending' = pending
                        ELSE pending' = pending \cup {n} /\ UNCHANGED uncaught
             /\ UNCHANGED <<warned, traced, unsent>>

\* index.ts:174-189  the try block: build jMessage, probe send, encode,
\* send and await; whatever is thrown is handed to traceError
EncodeAndSend(n, message, socket, sendThrows) ==
    LET jMessage == JMessage(message)
    IN  IF ~HasSend(socket)
        THEN /\ unsent' = unsent \cup {[push |-> n, socket |-> socket]}
             /\ UNCHANGED <<encodeCalls, sendCalls, pending, warned, traced,
                            uncaught>>
        ELSE /\ encodeCalls' =
                    Append(encodeCalls, [push |-> n, message |-> message,
                                         jMessage |-> jMessage])
             /\ IF EncodeThrows(jMessage)
                THEN /\ traced' = traced \cup {n}
                     /\ UNCHANGED <<sendCalls, pending>>
                ELSE /\ sendCalls' =
                            Append(sendCalls, [push |-> n, socket |-> socket,
                                               frames |-> Encode(jMessage)])
                     /\ IF sendThrows
                        THEN traced' = traced \cup {n} /\ pending' = pending
                        ELSE pending' = pending \cup {n} /\ traced' = traced
             /\ UNCHANGED <<warned, unsent, uncaught>>

\* index.ts:160-190  the next handler of outgoingMessages, run for the
\* n-th pushed message up to its await
OutgoingNext(n, message, sendThrows) ==
    IF NoChannel(message)
    THEN WarnAndDrop(n)
    ELSE IF SocketFor(message.channel) = "none"
         THEN WarnAndDrop(n)
         ELSE EncodeAndSend(n, message, SocketFor(message.channel), sendThrows)

\* mainChannel.next(message): the subject made by Subject.create hands the
\* value to its destination, the outgoingMessages subscriber, which runs
\* the handler unless it has been stopped (index.ts:159, 231)
MainChannelNext(n, message, sendThrows) ==
    IF outStopped
    THEN UNCHANGED <<outVars, uncaught>>
    ELSE OutgoingNext(n, message, sendThrows)

\* enchannelJMPConnection.ts:15-23  sendMessage
SendMessage(message, sendThrows) ==
    /\ pushed < MaxPush
    /\ pushed' = pushed + 1
    /\ IF mainChannel = "set"
       THEN MainChannelNext(pushed + 1, message, sendThrows)
       ELSE UNCHANGED <<outVars, uncaught>>
    /\ UNCHANGED <<connVars, subjectClosed, outStopped, hstate, received,
                   emitted, disposeCalls>>

\* index.ts:185-189  the awaited send of push n settles; a rejection is
\* caught and handed to traceError
SendSettles(n, ok) ==
    /\ n \in pending
    /\ pending' = pending \ {n}
    /\ traced' = IF ok THEN traced ELSE traced \cup {n}
    /\ UNCHANGED <<connVars, subjectClosed, outStopped, pushed, encodeCalls,
                   sendCalls, warned, unsent, inVars, disposeCalls>>

(* ---------------------------- inbound path ----------------------------- *)
\* the handlers currently subscribed to incomingMessages; publish/refCount
\* keep the sockets' 'message' listeners attached exactly while there is one
Active == {h \in Handlers : hstate[h] = "active"}

\* the merged stream has errored: the subject behind publish() keeps the
\* error, and the handlers subscribed at that moment are the errored ones
StreamErrored == \E h \in Handlers : hstate[h] = "errored"

\* Subscribe that keeps a handler given before connect has succeeded and
\* treats it as subscribed
SubscribeKeepingHandler(h) ==
    /\ hstate[h] = "unused"
    /\ \A g \in Handlers : g < h => hstate[g] # "unused"
    /\ hstate' = [hstate EXCEPT ![h] =
                    IF mainChannel = "set" /\ StreamErrored THEN "errored"
                    ELSE "active"]
    /\ uncaught' = IF mainChannel = "set" /\ StreamErrored
                    THEN uncaught + 1 ELSE uncaught
    /\ UNCHANGED <<connVars, subjectClosed, outStopped, pushed, outVars,
                   received, emitted, disposeCalls>>

\* enchannelJMPConnection.ts:24-29  subscribe: the handler becomes a
\* subscriber of incomingMessages, the source of the subject (index.ts:231);
\* once that stream has errored, publish() hands the kept error to the new
\* subscriber at once, which reports it as uncaught; without a main channel
\* the handler is dropped
Subscribe(h) ==
    /\ hstate[h] = "unused"
    /\ \A g \in Handlers : g < h => hstate[g] # "unused"
    /\ hstate' = [hstate EXCEPT ![h] =
                    IF mainChannel # "set" THEN "ignored"
                    ELSE IF StreamErrored THEN "errored"
                    ELSE "active"]
    /\ uncaught' = IF mainChannel = "set" /\ StreamErrored
                    THEN uncaught + 1 ELSE uncaught
    /\ UNCHANGED <<connVars, subjectClosed, outStopped, pushed, outVars,
                   received, emitted, disposeCalls>>

\* RawEvent whose decode failure tears the transport down: the sockets are
\* closed along with the subscriptions
RawEventClosingOnError(channel, body) ==
    /\ emitted < MaxEvents
    /\ sockets[channel].state = "bound"
    /\ emitted' = emitted + 1
    /\ LET msg == TagBody(body, channel)
       IN  IF Active = {}
           THEN UNCHANGED <<hstate, received, uncaught, sockets>>
           ELSE IF DecodeThrows(msg)
                THEN /\ hstate' = [h \in Handlers |->
                            IF h \in Active THEN "errored" ELSE hstate[h]]
                     /\ uncaught' = uncaught + Cardinality(Active)
                     /\ sockets' = [c \in Channels |->
                            [sockets[c] EXCEPT !.closes = @ + 1]]
                     /\ UNCHANGED received
                ELSE /\ received' = [h \in Handlers |->
                            IF h \in Active
                            THEN Append(received[h],
                                        [event |-> emitted + 1,
                                         channel |-> channel,
                                         message |-> Decode(msg)])
                            ELSE received[h]]
                     /\ UNCHANGED <<hstate, uncaught, sockets>>
    /\ UNCHANGED <<connectInfo, connectState, mainChannel, earlier,
                   subjectClosed, outStopped, pushed, outVars, disposeCalls>>

\* index.ts:204-229  a socket emits a raw 'message' event: with a listener
\* attached the body is tagged, decoded and published to every subscribed
\* handler; an exception in the map function errors the merged stream, which
\* ends every subscription, and a subscriber without an error callback
\* reports the error as uncaught
RawEvent(channel, body) ==
    /\ emitted < MaxEvents
    /\ sockets[channel].state = "bound"
    /\ emitted' = emitted + 1
    /\ LET msg == TagBody(body, channel)
       IN  IF Active = {}
           THEN UNCHANGED <<hstate, received, uncaught>>
           ELSE IF DecodeThrows(msg)
                THEN /\ hstate' = [h \in Handlers |->
                            IF h \in Active THEN "errored" ELSE hstate[h]]
                     /\ uncaught' = uncaught + Cardinality(Active)
                     /\ UNCHANGED received
                ELSE /\ received' = [h \in Handlers |->
                            IF h \in Active
                            THEN Append(received[h],
                                        [event |-> emitted + 1,
                                         channel |-> channel,
                                         message |-> Decode(msg)])
                            ELSE received[h]]
                     /\ UNCHANGED <<hstate, uncaught>>
    /\ UNCHANGED <<connVars, subjectClosed, outStopped, pushed, outVars,
                   disposeCalls>>

(* ------------------------------ disposal ------------------------------- *)
\* index.ts:192-200  the completion callback: close() on every socket
CloseAll(socks) ==
    [c \in Channels |-> [socks[c] EXCEPT !.closes = @ + 1]]

\* MainChannelUnsubscribe running the close callback on every call
MainChannelUnsubscribeClosing ==
    /\ subjectClosed' = TRUE
    /\ sockets' = CloseAll(sockets)
    /\ UNCHANGED <<outStopped, hstate>>

\* mainChannel.unsubscribe(): Subject.unsubscribe marks the subject itself
\* closed and stopped; it reaches neither the destination given to
\* Subject.create nor the subscriptions of its source
MainChannelUnsubscribe ==
    /\ subjectClosed' = TRUE
    /\ UNCHANGED <<sockets, outStopped, hstate>>

\* enchannelJMPConnection.ts:31-35  dispose
Dispose ==
    /\ disposeCalls < MaxDispose
    /\ disposeCalls' = disposeCalls + 1
    /\ IF mainChannel = "set"
       THEN MainChannelUnsubscribe
       ELSE UNCHANGED <<sockets, subjectClosed, outStopped, hstate>>
    /\ UNCHANGED <<connectInfo, connectState, mainChannel, earlier, pushed,
                   outVars, received, emitted, uncaught>>

\* complete() on the channels object returned by createMainChannel: the
\* subject forwards it to outgoingMessages, which, unless already stopped,
\* stops and runs the completion callback (index.ts:192-200)
Complete ==
    /\ mainChannel = "set"
    /\ ~outStopped
    /\ outStopped' = TRUE
    /\ sockets' = CloseAll(sockets)
    /\ UNCHANGED <<connectInfo, connectState, mainChannel, earlier,
                   subjectClosed, pushed, outVars, inVars, disposeCalls>>

(* --------------------------- specification ----------------------------- *)
SessionIds == {"session-id"}

\* connecting: connect and the settling of the four binds
NextConnect ==
    \/ \E cfg \in Configs, sessionID \in SessionIds :
            Connect(cfg, sessionID)
    \/ \E c \in Channels : BindFails(c)
    \/ \E c \in Channels : BindDone(c)

\* the outbound path
NextOut ==
    \/ \E m \in OutMessages, sendThrows \in BOOLEAN :
            SendMessage(m, sendThrows)
    \/ \E n \in 1..MaxPush, ok \in BOOLEAN : SendSettles(n, ok)

\* the inbound path
NextIn ==
    \/ \E h \in Handlers : Subscribe(h)
    \/ \E c \in Channels, body \in RawBodies : RawEvent(c, body)

\* disposal
NextDispose ==
    \/ Dispose
    \/ Complete

Next == NextConnect \/ NextOut \/ NextIn \/ NextDispose

\* the whole transport
Spec == Init /\ [][Next]_vars

\* the transport with no inbound traffic: outbound and inbound share no
\* state but the sockets and the subject, which only connecting and
\* disposal change
SpecOut == Init /\ [][NextConnect \/ NextOut \/ NextDispose]_vars

\* the transport with no outbound traffic
SpecIn == Init /\ [][NextConnect \/ NextIn \/ NextDispose]_vars

\* connecting with any descriptor, and nothing else
NextConnectAny ==
    \/ \E cfg \in AllConfigs, sessionID \in SessionIds :
            Connect(cfg, sessionID)
    \/ \E c \in Channels : BindFails(c)
    \/ \E c \in Channels : BindDone(c)

SpecConnect == Init /\ [][NextConnectAny]_vars

\* the calls that manage the connection, connect more than once among
\* them, with no traffic and no complete(): those act on the socket set of
\* the main channel in place, which `sockets` is only while no later
\* connect is under way
NextReconnect ==
    \/ NextConnect
    \/ \E cfg \in Configs, sessionID \in SessionIds :
            ConnectAgain(cfg, sessionID)
    \/ Dispose

SpecReconnect == Init /\ [][NextReconnect]_vars

\* calls made on the connection and raw events emitted so far
Calls ==
    pushed + emitted + disposeCalls
        + Cardinality({h \in Handlers : hstate[h] # "unused"})

\* sendMessage, subscribe, dispose and a raw event while fewer than
\* MaxCalls calls and events have been made
BoundedSendMessage(message, sendThrows) ==
    Calls < MaxCalls /\ SendMessage(message, sendThrows)

BoundedSubscribe(h) == Calls < MaxCalls /\ Subscribe(h)

BoundedRawEvent(channel, body) == Calls < MaxCalls /\ RawEvent(channel, body)

BoundedDispose == Calls < MaxCalls /\ Dispose

\* the whole transport, outbound and inbound together, for a bounded
\* number of calls and events
NextMixed ==
    \/ NextConnect
    \/ \E m \in OutMessages, sendThrows \in BOOLEAN :
            BoundedSendMessage(m, sendThrows)
    \/ \E n \in 1..MaxPush, ok \in BOOLEAN : SendSettles(n, ok)
    \/ \E h \in Handlers : BoundedSubscribe(h)
    \/ \E c \in Channels, body \in RawBodies : BoundedRawEvent(c, body)
    \/ BoundedDispose
    \/ Complete

SpecMixed == Init /\ [][NextMixed]_vars

(* ------------------------- checked properties -------------------------- *)
\* the stream has a main channel whose outbound side has not been completed
StreamLive == mainChannel = "set" /\ ~outStopped

\* the Active state of the stream: connected and not disposed
StreamActive == StreamLive /\ ~subjectClosed

\* the message names one of the three channels that can send
ValidFor(m) == ~NoChannel(m) /\ m.channel \in Dealers

\* the message is missing, has no channel or names no channel of the set
Unroutable(m) == NoChannel(m) \/ m.channel \notin Channels

\* this step made exactly one more send call, on socket c, of the frames
\* the codec gives for m
SentOnceOn(c, m) ==
    /\ Len(sendCalls') = Len(sendCalls) + 1
    /\ SubSeq(sendCalls', 1, Len(sendCalls)) = sendCalls
    /\ sendCalls'[Len(sendCalls')] =
          [push |-> pushed + 1, socket |-> c, frames |-> Encode(JMessage(m))]

\* this step made exactly one more encode call, for m
EncodedOnce(m) ==
    encodeCalls' = Append(encodeCalls, [push |-> pushed + 1, message |-> m,
                                        jMessage |-> JMessage(m)])

\* this step handled m as an outbound message is handled: one encode call,
\* and one send on the socket of its channel unless that encode call threw
ProcessedNormally(m) ==
    /\ EncodedOnce(m)
    /\ IF EncodeThrows(JMessage(m))
       THEN sendCalls' = sendCalls
       ELSE SentOnceOn(m.channel, m)

\* this step changed nothing a failure must not change
FailureContained ==
    /\ uncaught' = uncaught
    /\ sockets' = sockets
    /\ outStopped' = outStopped
    /\ mainChannel' = mainChannel

\* C1 (as claimed; the code violates it): once dispose() has been called
\* on a connected stream, every socket of the socket set has been closed
\* exactly once.
C1_DisposeClosesEverySocketOnce ==
    subjectClosed => \A c \in Channels : sockets[c].closes = 1

\* C2 (as claimed; the code violates it): after the stream has been
\* disposed no subscribed handler is invoked for a further inbound message.
C2_NoDeliveryAfterDispose ==
    [][subjectClosed => received' = received]_vars

\* C3 (as claimed; the code violates it): after the stream has been
\* disposed a further send causes no encode call and no socket send.
C3_NoSendAfterDispose ==
    [][subjectClosed => encodeCalls' = encodeCalls /\ sendCalls' = sendCalls]_vars

\* C4: whatever number of dispose() calls has been made, no socket's close
\* has been invoked more than once (a second close is the double-close
\* error).
C4_DisposeIdempotent ==
    \A c \in Channels : sockets[c].closes <= 1

\* C4 witness: dispose() was called twice on a connected stream that was
\* also completed, and every socket has been closed once.
C4_Witness ==
    /\ disposeCalls >= 2
    /\ subjectClosed
    /\ \A c \in Channels : sockets[c].closes = 1

\* C5 (as claimed; the code violates it): when connect has failed no main
\* channel exists and every socket of the batch that got bound, before or
\* after the failure, has been closed.
C5_FailedConnectLeavesNoSocketOpen ==
    connectState = "rejected" =>
        /\ mainChannel = "undefined"
        /\ \A c \in Channels :
              sockets[c].state = "bound" => sockets[c].closes = 1

\* C6 (as claimed; the code violates it): no inbound event, decodable or
\* not, ends a handler's subscription or surfaces as an uncaught error, so
\* later events still reach the subscribed handlers.
C6_DecodeFailureNotFatal ==
    [][/\ \A h \in Handlers : hstate[h] = "active" => hstate'[h] = "active"
       /\ uncaught' = uncaught]_vars

\* C7: a push whose encode or send throws, and a send that rejects later,
\* is handed to traceError and changes nothing else: nothing is uncaught,
\* no socket is closed, the stream is not stopped; and once a failure has
\* been traced a pushed message with a valid channel is still encoded and,
\* unless that encode call itself throws, sent on its channel's socket, as
\* long as the stream has not been completed.
C7_OutboundFailureContained ==
    [][/\ \A m \in OutMessages, t \in BOOLEAN :
            (/\ SendMessage(m, t)
             /\ StreamLive
             /\ ValidFor(m)
             /\ (EncodeThrows(JMessage(m)) \/ t))
            => ((pushed + 1) \in traced' /\ FailureContained)
       /\ \A n \in 1..MaxPush :
            SendSettles(n, FALSE) => (n \in traced' /\ FailureContained)
       /\ \A m \in OutMessages, t \in BOOLEAN :
            (SendMessage(m, t) /\ StreamLive /\ traced # {} /\ ValidFor(m))
            => ProcessedNormally(m)]_vars

\* C7 witness: a failure was traced for one push and a later push was sent.
C7_Witness ==
    \E n \in traced : \E i \in DOMAIN sendCalls : sendCalls[i].push > n

\* C8: pushing a missing message, a message without channel or with an
\* empty one, or one naming a channel outside the socket set makes no encode
\* call and no send, stops nothing and closes nothing; and after such a push
\* a message with a valid channel is still encoded and sent as usual.
C8_UnroutableDropped ==
    [][/\ \A m \in OutMessages, t \in BOOLEAN :
            (SendMessage(m, t) /\ mainChannel = "set" /\ Unroutable(m))
            => /\ encodeCalls' = encodeCalls
               /\ sendCalls' = sendCalls
               /\ pending' = pending
               /\ FailureContained
       /\ \A m \in OutMessages, t \in BOOLEAN :
            (SendMessage(m, t) /\ StreamLive /\ warned # {} /\ ValidFor(m))
            => ProcessedNormally(m)]_vars

\* C8 witness: a push was dropped with a warning and a later push was sent.
C8_Witness ==
    \E n \in warned : \E i \in DOMAIN sendCalls : sendCalls[i].push > n

\* C9 (as claimed; the code violates it): on an Active stream a push for
\* shell, control or stdin makes exactly one encode call and exactly one
\* send, on that channel's socket.
C9_OneEncodeOneSend ==
    [][\A m \in OutMessages, t \in BOOLEAN :
          (SendMessage(m, t) /\ StreamActive /\ ValidFor(m))
          => (EncodedOnce(m) /\ SentOnceOn(m.channel, m))]_vars

\* C9 (amended): on an Active stream a push for shell, control or stdin
\* makes exactly one encode call and, when that call returns frames,
\* exactly one send, of those frames on that channel's socket and on no
\* other; when the encode call throws no send is made at all.
C9_OneEncodeOneSendIfEncoded ==
    [][\A m \in OutMessages, t \in BOOLEAN :
          (SendMessage(m, t) /\ StreamActive /\ ValidFor(m))
          => ProcessedNormally(m)]_vars

\* C9 witness: on a stream that is still Active one push was encoded and
\* sent on stdin and another was encoded but not sent.
C9_Witness ==
    /\ StreamActive
    /\ \E i \in DOMAIN sendCalls : sendCalls[i].socket = "stdin"
    /\ \E i \in DOMAIN encodeCalls :
          \A j \in DOMAIN sendCalls : sendCalls[j].push # encodeCalls[i].push

\* C10: every header handed to encode carries the session and username of
\* the header record, whatever the caller put under those keys, and every
\* other field of the caller's header with its value unchanged.
C10_HeaderEnriched ==
    \A i \in DOMAIN encodeCalls :
        LET enriched == encodeCalls[i].jMessage.header
            caller == HeaderOf(encodeCalls[i].message)
        IN  /\ enriched.session = HeaderFiller.session
            /\ enriched.username = HeaderFiller.username
            /\ \A k \in (DOMAIN caller) \ {"session", "username"} :
                  k \in DOMAIN enriched /\ enriched[k] = caller[k]

\* C10 witness: encode was called for a message whose caller had set a
\* session and a username of its own, and another header field.
C10_Witness ==
    \E i \in DOMAIN encodeCalls :
        {"session", "username", "msg_id"} \subseteq
            DOMAIN HeaderOf(encodeCalls[i].message)

\* C11: no send is ever issued on the iopub socket, and a push naming
\* iopub on a connected stream makes no encode call and no send, traces no
\* error, leaves nothing uncaught, closes nothing and does not stop the
\* stream.
C11_IopubNeverSends ==
    [][/\ \A i \in DOMAIN sendCalls' : sendCalls'[i].socket # "iopub"
       /\ \A m \in OutMessages, t \in BOOLEAN :
            (/\ SendMessage(m, t)
             /\ mainChannel = "set"
             /\ ~NoChannel(m)
             /\ m.channel = "iopub")
            => /\ encodeCalls' = encodeCalls
               /\ sendCalls' = sendCalls
               /\ pending' = pending
               /\ traced' = traced
               /\ FailureContained]_vars

\* C11 witness: a push naming iopub ended at the socket without send, and
\* a later push was sent on another socket.
C11_Witness ==
    \E u \in unsent :
        /\ u.socket = "iopub"
        /\ \E i \in DOMAIN sendCalls : sendCalls[i].push > u.push

\* C12 (as claimed; the code violates it): a handler is invoked at most
\* once per raw event, and the message it gets carries a channel field that
\* names the socket the event came from.
C12_InboundTaggedWithChannel ==
    \A h \in Handlers : \A i \in DOMAIN received[h] :
        /\ \A j \in DOMAIN received[h] :
              received[h][j].event = received[h][i].event => j = i
        /\ "channel" \in DOMAIN received[h][i].message
        /\ received[h][i].message.channel = received[h][i].channel

\* C13 (as claimed; the code violates it): when a handler has been invoked
\* for events of two different sockets, it got them in the order the events
\* were emitted, and each message carries the channel of its own socket.
C13_MergedInOrderAndTagged ==
    \A h \in Handlers :
        (\E i, j \in DOMAIN received[h] :
            received[h][i].channel # received[h][j].channel)
        => /\ \A i, j \in DOMAIN received[h] :
                 i < j => received[h][i].event < received[h][j].event
           /\ \A i \in DOMAIN received[h] :
                 /\ "channel" \in DOMAIN received[h][i].message
                 /\ received[h][i].message.channel = received[h][i].channel

\* C14: the sends issued on one socket are issued in the order in which
\* their messages were pushed, also when a later message is pushed while an
\* earlier send is still awaited.
C14_OutboundOrderPerChannel ==
    \A i, j \in DOMAIN sendCalls :
        (i < j /\ sendCalls[i].socket = sendCalls[j].socket)
        => sendCalls[i].push < sendCalls[j].push

\* C14 witness: two sends were issued on one socket, the second while the
\* first was still awaited.
C14_Witness ==
    \E i, j \in DOMAIN sendCalls :
        /\ i < j
        /\ sendCalls[i].socket = sendCalls[j].socket
        /\ sendCalls[i].push \in pending
        /\ sendCalls[j].push \in pending

\* C15: for every descriptor and every channel, formConnectionString throws
\* exactly when that channel's port is absent or zero, whatever the other
\* channels' ports are, and otherwise gives transport://ip<delimiter>port,
\* the delimiter being ':' for tcp and '-' for ipc; the descriptor is left
\* as it was given.
C15_FormConnectionString ==
    \A c \in Channels :
        sockets[c].state # "none" =>
            LET falsy == \/ c \notin DOMAIN connectInfo.ports
                         \/ connectInfo.ports[c] = 0
                threw == sockets[c].state = "failed" /\ sockets[c].url = <<>>
            IN  /\ connectInfo \in AllConfigs
                /\ threw <=> falsy
                /\ ~falsy =>
                     /\ connectInfo.transport = "tcp" =>
                            sockets[c].url =
                                <<"tcp", "://", connectInfo.ip, ":",
                                  connectInfo.ports[c]>>
                     /\ connectInfo.transport = "ipc" =>
                            sockets[c].url =
                                <<"ipc", "://", connectInfo.ip, "-",
                                  connectInfo.ports[c]>>

\* C15 witness: on one descriptor formConnectionString has thrown for two
\* channels, one with a zero port and one with no port, and has returned
\* the ipc url for a third.
C15_Witness ==
    /\ connectInfo.transport = "ipc"
    /\ \E a, b, c \in Channels :
          /\ a \notin DOMAIN connectInfo.ports /\ sockets[a].url = <<>>
          /\ b \in DOMAIN connectInfo.ports /\ connectInfo.ports[b] = 0
          /\ sockets[b].url = <<>> /\ sockets[b].state = "failed"
          /\ c \in DOMAIN connectInfo.ports /\ connectInfo.ports[c] # 0
          /\ sockets[c].url # <<>>

\* C16: no step closes a socket unless it is the explicit completion of
\* the stream; in particular no push, whatever its routing, encode or send
\* does, no settling of a send and no raw event, whatever its decode does,
\* closes a socket.
C16_NoAutomaticClose ==
    [][/\ (\E c \in Channels : sockets'[c].closes # sockets[c].closes)
            => (~outStopped /\ outStopped')
       /\ (pushed' # pushed \/ pending' # pending \/ emitted' # emitted)
            => \A c \in Channels : sockets'[c].closes = sockets[c].closes]_vars

\* C16 witness: a routing error, an encode or send error and a decode error
\* have all occurred on the connected stream, and every socket is still
\* bound and not closed.
C16_Witness ==
    /\ mainChannel = "set"
    /\ warned # {}
    /\ traced # {}
    /\ StreamErrored
    /\ \A c \in Channels : sockets[c].state = "bound" /\ sockets[c].closes = 0

\* C17: when createSockets has succeeded, the set holds one bound socket
\* for each of shell, control, stdin and iopub and nothing else; shell,
\* control and stdin are dealers carrying one and the same routing
\* identity, the one given to connect; and the subscription filter has been
\* applied once, to the iopub subscriber and to no other socket; until then
\* no filter has been applied at all.
C17_SocketSetOnSuccess ==
    /\ connectState = "resolved" =>
          /\ mainChannel = "set"
          /\ DOMAIN sockets = {"shell", "control", "stdin", "iopub"}
          /\ \A c \in DOMAIN sockets :
                /\ sockets[c].state = "bound"
                /\ sockets[c].url # <<>>
          /\ \A c \in {"shell", "control", "stdin"} :
                /\ sockets[c].kind = "dealer"
                /\ sockets[c].routingId \in SessionIds
                /\ sockets[c].routingId = sockets["shell"].routingId
                /\ sockets[c].filters = <<>>
          /\ sockets["iopub"].kind = "subscriber"
          /\ sockets["iopub"].filters = <<"">>
    /\ connectState # "resolved" =>
          /\ mainChannel = "undefined"
          /\ \A c \in Channels : sockets[c].filters = <<>>

\* C17 witness: createSockets has succeeded on an ipc descriptor and the
\* set has been returned with the filter on iopub.
C17_Witness ==
    /\ connectState = "resolved"
    /\ mainChannel = "set"
    /\ connectInfo.transport = "ipc"
    /\ Len(sockets["iopub"].filters) = 1

\* C18 (as claimed; the code violates it): once dispose() has returned on
\* the connected object, every socket that its connect calls bound has been
\* closed; and once a later connect has put its own main channel in place,
\* no socket bound by the earlier connect is still open.
C18_ConnectDisposeLeavesNothingOpen ==
    /\ (connectState = "resolved" /\ subjectClosed) =>
          \A c \in Channels :
              /\ sockets[c].state = "bound" => sockets[c].closes >= 1
              /\ earlier[c].state = "bound" => earlier[c].closes >= 1
    /\ (connectState = "resolved"
          /\ \E c \in Channels : earlier[c].state # "none") =>
          \A c \in Channels :
              earlier[c].state = "bound" => earlier[c].closes >= 1

\* C19: while connect has not completed successfully, a call of
\* sendMessage, subscribe or dispose raises nothing, creates, binds and
\* closes no socket, causes no encode, no send and no log entry, and leaves
\* the connection as it is; the handler given to such a subscribe is
\* dropped, and a dropped handler is never invoked, whatever arrives after
\* connect has succeeded.
C19_NoOpsBeforeConnect ==
    [][/\ (/\ mainChannel = "undefined"
           /\ \/ pushed' # pushed
              \/ disposeCalls' # disposeCalls
              \/ \E h \in Handlers :
                    hstate[h] = "unused" /\ hstate'[h] # "unused")
          => /\ uncaught' = uncaught
             /\ sockets' = sockets
             /\ connectState' = connectState /\ mainChannel' = mainChannel
             /\ subjectClosed' = subjectClosed /\ outStopped' = outStopped
             /\ encodeCalls' = encodeCalls /\ sendCalls' = sendCalls
             /\ pending' = pending /\ unsent' = unsent
             /\ warned' = warned /\ traced' = traced
             /\ received' = received
             /\ \A h \in Handlers :
                   hstate'[h] # hstate[h] => hstate'[h] = "ignored"
       /\ \A h \in Handlers :
             hstate[h] = "ignored"
                => hstate'[h] = "ignored" /\ received'[h] = <<>>]_vars

\* C19 witness: a message was sent and a handler subscribed before connect
\* succeeded; connect then succeeded and an event reached a handler
\* subscribed after it, while the early handler got nothing and nothing of
\* the early message was encoded, sent or logged.
C19_Witness ==
    /\ mainChannel = "set"
    /\ pushed > 0
    /\ encodeCalls = <<>> /\ sendCalls = <<>>
    /\ warned = {} /\ traced = {} /\ unsent = {}
    /\ uncaught = 0
    /\ \E h, g \in Handlers :
          /\ hstate[h] = "ignored" /\ received[h] = <<>>
          /\ hstate[g] = "active" /\ received[g] # <<>>

\* a handler was given to subscribe on the connected stream and has not
\* been taken off it by its caller (the interface has no call for that)
Subscribed(h) == hstate[h] \in {"active", "errored"}

\* C20 (as claimed; the code violates it): nothing is kept for later
\* delivery, so a handler's messages grow only in the step of a raw event,
\* only by the one message of that very event and only for a handler
\* subscribed before it; and every raw event that decodes is delivered
\* exactly once to each handler subscribed at that moment.
C20_NoBufferingEachOnce ==
    [][/\ \A h \in Handlers :
             received'[h] # received[h]
                => /\ Subscribed(h)
                   /\ emitted' = emitted + 1
                   /\ \E rec \in {received'[h][Len(received'[h])]} :
                         /\ received'[h] = Append(received[h], rec)
                         /\ rec.event = emitted'
       /\ \A c \in Channels, body \in RawBodies :
             (RawEvent(c, body) /\ ~DecodeThrows(TagBody(body, c)))
                => \A h \in Handlers :
                      Subscribed(h)
                         => Len(received'[h]) = Len(received[h]) + 1]_vars

====
